---- MODULE Spec2Model ----
(***************************************************************************)
(* Billing and claims adjudication of halley-backend.                      *)
(*                                                                         *)
(* Money is an integer number of thousandths of a currency unit, so that   *)
(* 1000.00 is 1000000, one hundredth ("2 decimals") is 10, and an amount   *)
(* that carries a third decimal (0.007 is 7) can be written.  round(x, 2)  *)
(* is Round2: the nearest multiple of 10.                                  *)
(***************************************************************************)
EXTENDS Integers, Sequences, FiniteSets, TLC

VARIABLES
    charges_df,     \* calculate_totals: the charges argument (a sequence of rows)
    summary_row,    \* calculate_totals: the summary argument (field -> value)
    totals,         \* calculate_totals: <<>> before the call, <<result>> after
    tie_up,         \* calculate_totals: whether round() took a halfway GST value upwards
    totals_again,   \* calculate_totals: <<>> or <<result of a call on totals' Charges>>
    pa_head,        \* pre_auth_simulation: the head argument
    pa_amount,      \* pre_auth_simulation: the amount argument
    pa_result,      \* pre_auth_simulation: <<>> before the call, <<result>> after
    excel_files,    \* process_insurance_zip: the number of .xlsx names in the ZIP
    file_no,        \* process_insurance_zip: iterations of the file loop begun
    xls,            \* process_insurance_zip: <<>> or <<the sheets of the file read last>>
    bills,          \* process_insurance_zip: the bill rows of that file, adjudicated
    claim_status,   \* process_insurance_zip: the overall status of that file
    reports,        \* process_insurance_zip: the UHIDs whose .txt report is written
    master_data,    \* process_insurance_zip: the rows collected for the master CSV
    master_csv,     \* process_insurance_zip: <<>> or <<the rows written to the CSV>>
    zip_pc,         \* process_insurance_zip: "loop", "done" or "raised"
    ad_charges,     \* BillingDataAdapter.charges_df: the rows of Charges_Itemized
    ad_summary,     \* BillingDataAdapter.summary_df: the rows of Summary
    ad_patients,    \* BillingDataAdapter.patient_df: the rows of Patient
    billing_results,\* generate_billing: <<>> or <<the dict returned, by UHID>>
    ad_pc,          \* main.py: "read", "normalized" or "done"
    statuses,       \* status aggregation: the Pre-Auth Status of each bill row
    overall,        \* status aggregation: <<>> or <<the claim_status derived>>
    partA,          \* InsuranceDataAdapter.partA: the rows of PartA_PatientHospital
    partB,          \* InsuranceDataAdapter.partB: the rows of PartB_Diagnosis
    partC,          \* InsuranceDataAdapter.partC: the rows of PartC_BillSummary
    partD,          \* InsuranceDataAdapter.partD: the rows of PartD_Claim
    ia_pc,          \* InsuranceDataAdapter: "new" or "loaded" (read_data done)
    ia_uhid,        \* the uhid argument of the four get_ calls
    ia_result       \* <<>> or <<what the four get_ calls gave for ia_uhid>>

engineVars == <<charges_df, summary_row, totals, tie_up, totals_again>>
preAuthVars == <<pa_head, pa_amount, pa_result>>
zipVars == <<excel_files, file_no, xls, bills, claim_status, reports, master_data,
             master_csv, zip_pc>>
adapterVars == <<ad_charges, ad_summary, ad_patients, billing_results, ad_pc>>
statusVars == <<statuses, overall>>
insVars == <<partA, partB, partC, partD, ia_pc, ia_uhid, ia_result>>
extraVars == <<statusVars, insVars>>
vars == <<engineVars, preAuthVars, zipVars, adapterVars, extraVars>>

\* The parts of the state a specification leaves unused.
EngineIdle ==
    /\ charges_df = <<>> /\ summary_row = <<>> /\ totals = <<>>
    /\ tie_up = FALSE /\ totals_again = <<>>
PreAuthIdle == pa_head = "" /\ pa_amount = 0 /\ pa_result = <<>>
ZipIdle ==
    /\ excel_files = 0 /\ file_no = 0 /\ xls = <<>> /\ bills = <<>>
    /\ claim_status = "" /\ reports = {} /\ master_data = <<>>
    /\ master_csv = <<>> /\ zip_pc = "idle"
AdapterIdle ==
    /\ ad_charges = <<>> /\ ad_summary = <<>> /\ ad_patients = <<>>
    /\ billing_results = <<>> /\ ad_pc = "idle"
StatusIdle == statuses = <<>> /\ overall = <<>>
InsIdle ==
    /\ partA = <<>> /\ partB = <<>> /\ partC = <<>> /\ partD = <<>>
    /\ ia_pc = "idle" /\ ia_uhid = "" /\ ia_result = <<>>
ExtraIdle == StatusIdle /\ InsIdle

----------------------------------------------------------------------------
(* Bounds of the model *)

MaxCharges == 3
MaxBills == 2          \* bill rows of one claim file
MaxFiles == 2          \* files of one ZIP
MaxBatchBills == 1     \* bill rows of a claim file in a ZIP of several files
MaxSheetCharges == 2   \* rows of the Charges_Itemized sheet
MaxSummaryRows == 2    \* rows of the Summary sheet
MaxLines == 3          \* bill rows whose statuses are aggregated
MaxPartRows == 1       \* rows of each sheet read by InsuranceDataAdapter

----------------------------------------------------------------------------
(* Helpers: sums, subsequences, rounding *)

RECURSIVE SumSeq(_)
SumSeq(s) == IF s = <<>> THEN 0 ELSE Head(s) + SumSeq(Tail(s))

\* The rows of df at the positions in keep, in the order of df.
RECURSIVE Take(_, _, _)
Take(df, keep, i) ==
    IF i > Len(df) THEN <<>>
    ELSE (IF i \in keep THEN <<df[i]>> ELSE <<>>) \o Take(df, keep, i + 1)

\* round(num / den, 2) of a value num/den >= 0 given in thousandths: the
\* nearest multiple of 10.  A value exactly halfway between two hundredths
\* goes where the binary floating-point product happens to fall, which the
\* caller supplies as tieUp.
Round2(num, den, tieUp) ==
    LET q == num \div (den * 10)
        r == num % (den * 10)
    IN  IF 2 * r < den * 10 THEN 10 * q
        ELSE IF 2 * r > den * 10 THEN 10 * (q + 1)
        ELSE IF tieUp THEN 10 * (q + 1) ELSE 10 * q

\* Whether num/den, in thousandths, lies exactly halfway between two hundredths.
Halfway(num, den) == 2 * (num % (den * 10)) = den * 10

\* dict/Series .get(key, default)
Get(row, key, default) == IF key \in DOMAIN row THEN row[key] ELSE default

----------------------------------------------------------------------------
(* BillingEngine (src/src/billing_engine.py) *)

GST_RATE == 5      \* GST_RATE = 0.05, in hundredths

\* Head and Description values of charge rows, each listed in the sort order
\* of the strings (groupby sorts its keys).
HeadValues == <<"Pharmacy", "Room Rent">>
DescriptionValues == <<"Medicines", "Single AC">>
AmountValues == {100, 1255, 500000, 1000000}

Rng(s) == {s[i] : i \in 1..Len(s)}

ChargeRows ==
    [Head : Rng(HeadValues), Description : Rng(DescriptionValues), Amount : AmountValues]

SummaryRows ==
    { d @@ a : d \in {<<>>} \cup {[Discount |-> v] : v \in {100000}},
               a \in {<<>>} \cup {("Advance Paid" :> v) : v \in {500000, 2000005}} }

SeqsUpTo(S, n) == UNION {[1..k -> S] : k \in 0..n}

\* The (Head, Description) subset of a row.
Key(row) == <<row.Head, row.Description>>

\* All keys in sorted order, as groupby(['Head', 'Description']) lists them.
SortedKeys ==
    [i \in 1..(Len(HeadValues) * Len(DescriptionValues)) |->
        <<HeadValues[((i - 1) \div Len(DescriptionValues)) + 1],
          DescriptionValues[((i - 1) % Len(DescriptionValues)) + 1]>>]

\* charges_df.groupby(['Head', 'Description']).size(), for one key
GroupSize(df, k) == Cardinality({i \in 1..Len(df) : Key(df[i]) = k})

\* duplicates[duplicates > 1], the keys kept
DuplicatedFromOne(df, k) == GroupSize(df, k) >= 1
Duplicated(df, k) == GroupSize(df, k) > 1

\* The message appended for one duplicated key, as the three values it formats.
Diagnostic(df, k) ==
    [Description |-> k[2], Head |-> k[1], Ignored |-> GroupSize(df, k) - 1]

\* errors: one message per duplicated key, in the order of the grouped keys
RECURSIVE ErrorsFrom(_, _)
ErrorsFrom(df, i) ==
    IF i > Len(SortedKeys) THEN <<>>
    ELSE (IF Duplicated(df, SortedKeys[i])
          THEN <<Diagnostic(df, SortedKeys[i])>> ELSE <<>>)
         \o ErrorsFrom(df, i + 1)

\* drop_duplicates(subset=['Head', 'Description'], keep='first')
KeptLast(df) ==
    {i \in 1..Len(df) : \A j \in (i + 1)..Len(df) : Key(df[j]) # Key(df[i])}
Kept(df) ==
    {i \in 1..Len(df) : \A j \in 1..(i - 1) : Key(df[j]) # Key(df[i])}

drop_duplicates(df) == Take(df, Kept(df), 1)

\* subtotal = cleaned_charges['Amount'].sum(), of the cleaned rows and not of
\* the rows passed in
SubtotalRaw(df, cleaned_charges) == SumSeq([i \in 1..Len(df) |-> df[i].Amount])
Subtotal(df, cleaned_charges) ==
    SumSeq([i \in 1..Len(cleaned_charges) |-> cleaned_charges[i].Amount])

\* gst = round(subtotal * BillingEngine.GST_RATE, 2)
GstUnrounded(subtotal, tieUp) == (subtotal * GST_RATE) \div 100
Gst(subtotal, tieUp) == Round2(subtotal * GST_RATE, 100, tieUp)

\* balance_due = grand_total - total_paid
BalanceClamped(grand_total, total_paid) ==
    IF grand_total - total_paid < 0 THEN 0 ELSE grand_total - total_paid
Balance(grand_total, total_paid) == grand_total - total_paid

\* BillingEngine.calculate_totals
calculate_totals(df, summary, tieUp) ==
    LET errors == ErrorsFrom(df, 1)
        cleaned_charges == drop_duplicates(df)
        subtotal == Subtotal(df, cleaned_charges)
        gst == Gst(subtotal, tieUp)
        discount == Get(summary, "Discount", 0)
        advance_paid == Get(summary, "Advance Paid", 0)
        grand_total == subtotal + gst - discount
        total_paid == advance_paid
        balance_due == Balance(grand_total, total_paid)
    IN  [Subtotal |-> subtotal, GST |-> gst, Discount |-> discount,
         AdvancePaid |-> advance_paid, GrandTotal |-> grand_total,
         TotalPaid |-> total_paid, BalanceDue |-> balance_due,
         Errors |-> errors, Charges |-> cleaned_charges]

----------------------------------------------------------------------------
(* Specification of the engine: any charges and summary, one call, and a
   second call on the cleaned charges the first one returned.  The same
   subtotal is the same floating-point value in both calls, so a halfway GST
   is rounded the same way in both. *)

InitEngine ==
    /\ charges_df \in SeqsUpTo(ChargeRows, MaxCharges)
    /\ summary_row \in SummaryRows
    /\ totals = <<>>
    /\ tie_up = FALSE
    /\ totals_again = <<>>
    /\ PreAuthIdle
    /\ ZipIdle
    /\ AdapterIdle
    /\ ExtraIdle

CalculateTotals ==
    /\ totals = <<>>
    /\ \E tieUp \in BOOLEAN :
         /\ totals' = <<calculate_totals(charges_df, summary_row, tieUp)>>
         /\ tie_up' = (tieUp /\ Halfway(Subtotal(charges_df, drop_duplicates(charges_df))
                                          * GST_RATE, 100))
    /\ UNCHANGED <<charges_df, summary_row, totals_again, preAuthVars, zipVars,
                   adapterVars, extraVars>>

CalculateTotalsAgain ==
    /\ totals # <<>>
    /\ totals_again = <<>>
    /\ totals_again' = <<calculate_totals(totals[1].Charges, summary_row, tie_up)>>
    /\ UNCHANGED <<charges_df, summary_row, totals, tie_up, preAuthVars, zipVars,
                   adapterVars, extraVars>>

NextEngine == CalculateTotals \/ CalculateTotalsAgain

SpecEngine == InitEngine /\ [][NextEngine]_vars

----------------------------------------------------------------------------
(* Pre-authorization (src/src/Insurance_main.py) *)

\* PRE_AUTH_RULES
PRE_AUTH_RULES ==
    ("ICU" :> "Partial") @@
    ("OT/Cath Lab" :> "Required") @@
    ("Surgery/Procedure" :> "Required") @@
    ("Anesthesia" :> "Required") @@
    ("Room Rent" :> "Partial") @@
    ("Pharmacy & Consumables" :> "Approved") @@
    ("Investigations" :> "Approved") @@
    ("Miscellaneous" :> "Approved") @@
    ("Nursing" :> "Approved") @@
    ("Procedure/Treatment" :> "Required")

PARTIAL_PERCENT == 80      \* PARTIAL_PERCENT = 0.8, in hundredths

\* rule = PRE_AUTH_RULES.get(head, "Approved")
RuleOfRejectUnknown(head) == Get(PRE_AUTH_RULES, head, "Rejected")
RuleOf(head) == Get(PRE_AUTH_RULES, head, "Approved")

\* round(amount * PARTIAL_PERCENT, 2)
PartialTruncated(amount, tieUp) == 10 * ((amount * PARTIAL_PERCENT) \div 1000)
PartialAmount(amount, tieUp) == Round2(amount * PARTIAL_PERCENT, 100, tieUp)

\* pre_auth_simulation(head, amount).  full is the draw random.random() > 0.2.
pre_auth_simulation(head, amount, full, tieUp) ==
    LET rule == RuleOf(head)
    IN  IF rule = "Approved" THEN
            [status |-> "Approved", authorized |-> amount]
        ELSE IF rule = "Partial" THEN
            [status |-> "Partial", authorized |-> PartialAmount(amount, tieUp)]
        ELSE IF rule = "Required" THEN
            LET approved_amount ==
                    IF full THEN amount ELSE PartialAmount(amount, tieUp)
            IN  [status |-> IF approved_amount = amount THEN "Approved" ELSE "Partial",
                 authorized |-> approved_amount]
        ELSE
            [status |-> "Rejected", authorized |-> 0]

----------------------------------------------------------------------------
(* Specification of the simulator: any head and amount >= 0, then one call *)

\* Heads of the rule table and one head that is absent from it.
PreAuthHeads == DOMAIN PRE_AUTH_RULES \cup {"Consultation"}

\* 0, amounts below one hundredth, amounts with a third decimal, whole
\* hundredths, and 1000.00.
PreAuthAmounts == {0, 4, 7, 10, 19, 20, 30, 1250, 1255, 1000000}

InitPreAuth ==
    /\ pa_head \in PreAuthHeads
    /\ pa_amount \in PreAuthAmounts
    /\ pa_result = <<>>
    /\ EngineIdle
    /\ ZipIdle
    /\ AdapterIdle
    /\ ExtraIdle

PreAuthSimulation ==
    /\ pa_result = <<>>
    /\ \E full \in BOOLEAN, tieUp \in BOOLEAN :
         pa_result' = <<pre_auth_simulation(pa_head, pa_amount, full, tieUp)>>
    /\ UNCHANGED <<pa_head, pa_amount, engineVars, zipVars, adapterVars, extraVars>>

NextPreAuth == PreAuthSimulation

SpecPreAuth == InitPreAuth /\ [][NextPreAuth]_vars

----------------------------------------------------------------------------
(* process_insurance_zip (src/src/Insurance_main.py) *)

\* Determine overall claim status
OverallStatusAnyApproved(sts) ==
    IF \E i \in 1..Len(sts) : sts[i] = "Approved" THEN "Approved"
    ELSE IF \E i \in 1..Len(sts) : sts[i] = "Rejected" THEN "Partial"
    ELSE IF \E i \in 1..Len(sts) : sts[i] = "Partial" THEN "Partial"
    ELSE "Pending"
OverallStatusRejected(sts) ==
    IF \A i \in 1..Len(sts) : sts[i] = "Approved" THEN "Approved"
    ELSE IF \E i \in 1..Len(sts) : sts[i] = "Rejected" THEN "Rejected"
    ELSE IF \E i \in 1..Len(sts) : sts[i] = "Partial" THEN "Partial"
    ELSE "Pending"
OverallStatus(sts) ==
    IF \A i \in 1..Len(sts) : sts[i] = "Approved" THEN "Approved"
    ELSE IF \E i \in 1..Len(sts) : sts[i] = "Rejected" THEN "Partial"
    ELSE IF \E i \in 1..Len(sts) : sts[i] = "Partial" THEN "Partial"
    ELSE "Pending"

\* The rows of the sheets of one claim file.
UHIDs == {"P1", "P2"}
PatientRows == [UHID : UHIDs]
BillRows == [UHID : UHIDs, Head : {"Nursing", "Room Rent", "Surgery/Procedure"},
             Amount : {1000000}]
ClaimRows == [UHID : UHIDs, AmountPaidByPatient : {200000}]

\* Claim files whose PartC_BillSummary sheet has up to n rows.  The PartA and
\* PartD sheets have one row, or none.
ClaimFiles(n) ==
    [partA : SeqsUpTo(PatientRows, 1), partC : SeqsUpTo(BillRows, n),
     partD : SeqsUpTo(ClaimRows, 1)]

\* for item in bills: item['Pre-Auth Status'], item['Authorized Amount'] = ...
Adjudicate(rows, full, tieUp) ==
    [i \in 1..Len(rows) |->
        LET r == pre_auth_simulation(rows[i].Head, rows[i].Amount, full[i], tieUp)
        IN  [UHID |-> rows[i].UHID, Head |-> rows[i].Head, Amount |-> rows[i].Amount,
             PreAuthStatus |-> r.status, AuthorizedAmount |-> r.authorized]]

\* The row appended to master_data for one file.
MasterRow(f, items) ==
    LET authorized_total == SumSeq([i \in 1..Len(items) |-> items[i].AuthorizedAmount])
        amount_paid_by_patient == f.partD[1].AmountPaidByPatient
        balance_due == authorized_total - amount_paid_by_patient
    IN  [UHID |-> f.partA[1].UHID,
         AmountPaidByPatient |-> amount_paid_by_patient,
         AuthorizedClaimed |-> authorized_total,
         BalanceDue |-> balance_due,
         ClaimStatus |-> OverallStatus([i \in 1..Len(items) |-> items[i].PreAuthStatus])]

\* One iteration of `for excel_file in excel_files`, on a file f read from
\* the ZIP.  df_partA.iloc[0] and df_partD.iloc[0] raise IndexError on a sheet
\* without rows; nothing catches it, so the function ends there.
ProcessFile(files) ==
    /\ zip_pc = "loop"
    /\ file_no < excel_files
    /\ \E f \in files, tieUp \in BOOLEAN :
       \E full \in [1..Len(f.partC) -> BOOLEAN] :
         LET items == Adjudicate(f.partC, full, tieUp)
         IN  /\ file_no' = file_no + 1
             /\ xls' = <<f>>
             /\ IF f.partA = <<>> THEN
                    /\ zip_pc' = "raised"
                    /\ UNCHANGED <<bills, claim_status, reports, master_data>>
                ELSE IF f.partD = <<>> THEN
                    /\ zip_pc' = "raised"
                    /\ bills' = items
                    /\ UNCHANGED <<claim_status, reports, master_data>>
                ELSE
                    /\ bills' = items
                    /\ claim_status' = MasterRow(f, items).ClaimStatus
                    /\ reports' = reports \cup {f.partA[1].UHID}
                    /\ master_data' = Append(master_data, MasterRow(f, items))
                    /\ UNCHANGED zip_pc
    /\ UNCHANGED <<excel_files, master_csv, engineVars, preAuthVars, adapterVars, extraVars>>

\* Save master CSV, after the last file.
SaveMasterCsv ==
    /\ zip_pc = "loop"
    /\ file_no = excel_files
    /\ master_csv' = <<master_data>>
    /\ zip_pc' = "done"
    /\ UNCHANGED <<excel_files, file_no, xls, bills, claim_status, reports,
                   master_data, engineVars, preAuthVars, adapterVars, extraVars>>

ZipStart ==
    /\ file_no = 0 /\ xls = <<>> /\ bills = <<>> /\ claim_status = ""
    /\ reports = {} /\ master_data = <<>> /\ master_csv = <<>> /\ zip_pc = "loop"
    /\ EngineIdle
    /\ PreAuthIdle
    /\ AdapterIdle
    /\ ExtraIdle

----------------------------------------------------------------------------
(* Specification of one claim: a ZIP that holds one claim file *)

InitClaim == excel_files = 1 /\ ZipStart

NextClaim == ProcessFile(ClaimFiles(MaxBills)) \/ SaveMasterCsv

SpecClaim == InitClaim /\ [][NextClaim]_vars

----------------------------------------------------------------------------
(* Specification of a batch: a ZIP that holds up to MaxFiles claim files *)

InitZip == excel_files \in 0..MaxFiles /\ ZipStart

NextZip == ProcessFile(ClaimFiles(MaxBatchBills)) \/ SaveMasterCsv

SpecZip == InitZip /\ [][NextZip]_vars

----------------------------------------------------------------------------
(* Specification of the status aggregation of process_insurance_zip, on any
   sequence of line statuses: the three statuses of a ClaimLineOutcome and
   one value that is none of them *)

LineStatuses == {"Approved", "Partial", "Rejected", "On Hold"}

InitStatus ==
    /\ statuses \in SeqsUpTo(LineStatuses, MaxLines)
    /\ overall = <<>>
    /\ EngineIdle
    /\ PreAuthIdle
    /\ ZipIdle
    /\ AdapterIdle
    /\ InsIdle

DetermineStatus ==
    /\ overall = <<>>
    /\ overall' = <<OverallStatus(statuses)>>
    /\ UNCHANGED <<statuses, engineVars, preAuthVars, zipVars, adapterVars, insVars>>

NextStatus == DetermineStatus

SpecStatus == InitStatus /\ [][NextStatus]_vars

----------------------------------------------------------------------------
(* BillingDataAdapter (src/src/billing_adapter.py), as main.py drives it *)

\* A UHID cell as read_excel returns it: a number, or a text that may carry
\* surrounding blanks.  text is str(cell).
IdCells ==
    { [type |-> "int", text |-> "101"], [type |-> "str", text |-> "101"],
      [type |-> "str", text |-> " 101 "], [type |-> "int", text |-> "102"] }

\* str.strip(), on the texts of the model
Strip(t) ==
    CASE t = " 101 " -> "101"
      [] t = " Medicines" -> "Medicines"
      [] t = " Asha Rao " -> "Asha Rao"
      [] OTHER -> t

\* .astype(str).str.strip() of one cell
AsStrStripped(cell) == [type |-> "str", text |-> Strip(cell.text)]

SheetChargeRows ==
    [UHID : IdCells, Head : {"Pharmacy"}, Description : {"Medicines", " Medicines"},
     Amount : {500000}]
SheetSummaryRows == [UHID : IdCells, Discount : {100000}, AdvancePaid : {500000}]
PatientSheets ==
    { <<>>, <<[UHID |-> [type |-> "int", text |-> "101"], PatientName |-> " Asha Rao "]>> }

\* BillingDataAdapter.normalize_data: Head and Description of the charges,
\* Patient Name of the patients and UHID of the summary; the UHID columns of
\* the charges and of the patients stay as read.
NormalizeData ==
    /\ ad_pc = "read"
    /\ ad_charges' =
         [i \in 1..Len(ad_charges) |->
            [ad_charges[i] EXCEPT !.Head = Strip(@), !.Description = Strip(@)]]
    /\ ad_patients' =
         [i \in 1..Len(ad_patients) |->
            [ad_patients[i] EXCEPT !.PatientName = Strip(@)]]
    /\ ad_summary' =
         [i \in 1..Len(ad_summary) |->
            [ad_summary[i] EXCEPT !.UHID = AsStrStripped(@)]]
    /\ ad_pc' = "normalized"
    /\ UNCHANGED <<billing_results, engineVars, preAuthVars, zipVars, extraVars>>

\* self.X.loc[self.X['UHID'] == uhid]: the positions of the matching rows
RowsOf(df, uhid) == {i \in 1..Len(df) : df[i].UHID = uhid}

\* The smallest position in a set of positions that is not empty (iloc[0]).
First(S) == CHOOSE i \in S : \A j \in S : i <= j

\* summary_row of one UHID: the first matching row, or the default Series
SummaryRowOf(df, uhid) ==
    IF RowsOf(df, uhid) # {}
    THEN LET r == df[First(RowsOf(df, uhid))]
         IN  ("UHID" :> r.UHID) @@ ("Discount" :> r.Discount)
             @@ ("Advance Paid" :> r.AdvancePaid)
    ELSE ("Discount" :> 0) @@ ("Advance Paid" :> 0)

\* patient_name of one UHID
PatientNameOf(df, uhid) ==
    IF RowsOf(df, uhid) # {} THEN df[First(RowsOf(df, uhid))].PatientName
    ELSE "Unknown"

\* BillingDataAdapter.generate_billing: one entry per UHID value of the
\* charges, as groupby('UHID') groups them.
GenerateBilling ==
    /\ ad_pc = "normalized"
    /\ LET uhids == {ad_charges[i].UHID : i \in 1..Len(ad_charges)}
       IN  \E tieUp \in [uhids -> BOOLEAN] :
             billing_results' =
               << [uhid \in uhids |->
                     LET group == Take(ad_charges, RowsOf(ad_charges, uhid), 1)
                         summary == SummaryRowOf(ad_summary, uhid)
                     IN  [Totals |-> calculate_totals(group, summary, tieUp[uhid]),
                          PatientName |-> PatientNameOf(ad_patients, uhid)]] >>
    /\ ad_pc' = "done"
    /\ UNCHANGED <<ad_charges, ad_summary, ad_patients, engineVars, preAuthVars,
                   zipVars, extraVars>>

----------------------------------------------------------------------------
(* Specification of the adapter: read_data, normalize_data, generate_billing *)

InitAdapter ==
    /\ ad_charges \in SeqsUpTo(SheetChargeRows, MaxSheetCharges)
    /\ ad_summary \in SeqsUpTo(SheetSummaryRows, MaxSummaryRows)
    /\ ad_patients \in PatientSheets
    /\ billing_results = <<>>
    /\ ad_pc = "read"
    /\ EngineIdle
    /\ PreAuthIdle
    /\ ZipIdle
    /\ ExtraIdle

NextAdapter == NormalizeData \/ GenerateBilling

SpecAdapter == InitAdapter /\ [][NextAdapter]_vars

----------------------------------------------------------------------------
(* InsuranceDataAdapter (src/src/InsuranceDataAdapter.py) *)

PartARows == [UHID : IdCells, PatientName : {"Asha Rao"}]
PartBRows == [UHID : IdCells, Procedure : {"Angioplasty"}]
PartCRows == [UHID : IdCells, Head : {"Nursing"}]
PartDRows == [UHID : IdCells, AmountPaidByPatient : {200000}]

\* df["UHID"] = df["UHID"].astype(str).str.strip()
NormalizeUHID(df) ==
    [i \in 1..Len(df) |-> [df[i] EXCEPT !.UHID = AsStrStripped(@)]]

\* InsuranceDataAdapter.read_data
ReadData ==
    /\ ia_pc = "new"
    /\ partA' = NormalizeUHID(partA)
    /\ partB' = NormalizeUHID(partB)
    /\ partC' = NormalizeUHID(partC)
    /\ partD' = NormalizeUHID(partD)
    /\ ia_pc' = "loaded"
    /\ UNCHANGED <<ia_uhid, ia_result, engineVars, preAuthVars, zipVars, adapterVars,
                   statusVars>>

\* df[df['UHID'] == uhid].to_dict(orient='records')
Records(df, uhid) == Take(df, RowsOf(df, uhid), 1)

\* What a get_ call gives: None, a dict (rows holds it), a list (rows), or
\* the exception that left the call.
\* InsuranceDataAdapter.get_patient_info
get_patient_info_unchecked(df, uhid) ==
    IF Records(df, uhid) = <<>> THEN [kind |-> "IndexError", rows |-> <<>>]
    ELSE [kind |-> "dict", rows |-> <<Records(df, uhid)[1]>>]
get_patient_info(df, uhid) ==
    IF Records(df, uhid) = <<>> THEN [kind |-> "None", rows |-> <<>>]
    ELSE [kind |-> "dict", rows |-> <<Records(df, uhid)[1]>>]

\* InsuranceDataAdapter.get_diagnosis_info
get_diagnosis_info(df, uhid) == [kind |-> "list", rows |-> Records(df, uhid)]

\* InsuranceDataAdapter.get_bill_summary
get_bill_summary(df, uhid) == [kind |-> "list", rows |-> Records(df, uhid)]

\* InsuranceDataAdapter.get_claim_summary
get_claim_summary(df, uhid) ==
    IF Records(df, uhid) = <<>> THEN [kind |-> "None", rows |-> <<>>]
    ELSE [kind |-> "dict", rows |-> <<Records(df, uhid)[1]>>]

\* The identifiers a caller asks for: those of the sheets, as text or as a
\* number, and one that no sheet holds.
LookupIds == IdCells \cup {[type |-> "str", text |-> "103"]}

\* The four get_ calls for one uhid, after read_data.
Lookup ==
    /\ ia_pc = "loaded"
    /\ ia_result = <<>>
    /\ \E uhid \in LookupIds :
         /\ ia_uhid' = uhid
         /\ ia_result' = << [patient |-> get_patient_info(partA, uhid),
                             diagnosis |-> get_diagnosis_info(partB, uhid),
                             bills |-> get_bill_summary(partC, uhid),
                             claim |-> get_claim_summary(partD, uhid)] >>
    /\ UNCHANGED <<partA, partB, partC, partD, ia_pc, engineVars, preAuthVars,
                   zipVars, adapterVars, statusVars>>

----------------------------------------------------------------------------
(* Specification of the insurance adapter: read_data, then the get_ calls *)

InitIns ==
    /\ partA \in SeqsUpTo(PartARows, MaxPartRows)
    /\ partB \in SeqsUpTo(PartBRows, MaxPartRows)
    /\ partC \in SeqsUpTo(PartCRows, MaxPartRows)
    /\ partD \in SeqsUpTo(PartDRows, MaxPartRows)
    /\ ia_pc = "new"
    /\ ia_uhid = ""
    /\ ia_result = <<>>
    /\ EngineIdle
    /\ PreAuthIdle
    /\ ZipIdle
    /\ AdapterIdle
    /\ StatusIdle

NextIns == ReadData \/ Lookup

SpecIns == InitIns /\ [][NextIns]_vars

----------------------------------------------------------------------------
(* Claims about BillingEngine.calculate_totals, under SpecEngine *)

Returned == totals # <<>>

InputKeys == {Key(charges_df[i]) : i \in 1..Len(charges_df)}

\* The position of the first row of charges_df that has key k.
FirstOf(k) ==
    CHOOSE i \in 1..Len(charges_df) :
        /\ Key(charges_df[i]) = k
        /\ \A j \in 1..(i - 1) : Key(charges_df[j]) # k

\* The sum, over the keys in S, of the Amount of the key's first row.
RECURSIVE SumFirstAmounts(_)
SumFirstAmounts(S) ==
    IF S = {} THEN 0
    ELSE LET k == CHOOSE y \in S : TRUE
         IN  charges_df[FirstOf(k)].Amount + SumFirstAmounts(S \ {k})

ScenarioA ==
    << [Head |-> "Room Rent", Description |-> "Single AC", Amount |-> 1000000],
       [Head |-> "Pharmacy", Description |-> "Medicines", Amount |-> 500000],
       [Head |-> "Pharmacy", Description |-> "Medicines", Amount |-> 500000] >>

\* C1: the cleaned charges hold exactly one row per distinct (Head,
\* Description) key of the input, that row is the first row of the key in
\* the input, and the cleaned rows are in the order they had in the input.
C1_FirstPerKeyInOrder ==
    Returned =>
        LET out == totals[1].Charges
        IN  /\ Len(out) = Cardinality(InputKeys)
            /\ {Key(out[p]) : p \in 1..Len(out)} = InputKeys
            /\ \A p \in 1..Len(out) : out[p] = charges_df[FirstOf(Key(out[p]))]
            /\ \A p, q \in 1..Len(out) :
                 p < q => FirstOf(Key(out[p])) < FirstOf(Key(out[q]))

\* A key is repeated with another amount after a row of another key came
\* between, and the call kept two rows.
C1_Witness ==
    /\ Returned
    /\ Len(charges_df) = 3
    /\ Key(charges_df[1]) = Key(charges_df[3])
    /\ Key(charges_df[1]) # Key(charges_df[2])
    /\ charges_df[1].Amount # charges_df[3].Amount
    /\ Len(totals[1].Charges) = 2

\* C2: Errors holds exactly one diagnostic per key that occurs n > 1 times
\* and none for the other keys; the diagnostic names the description, the
\* head and n - 1, the number of rows of the key missing from the cleaned set.
C2_OneDiagnosticPerDuplicatedKey ==
    Returned =>
        LET errs == totals[1].Errors
            out == totals[1].Charges
        IN  \A k \in Rng(SortedKeys) :
              LET n == Cardinality({i \in 1..Len(charges_df) : Key(charges_df[i]) = k})
                  left == Cardinality({p \in 1..Len(out) : Key(out[p]) = k})
                  at == {e \in 1..Len(errs) :
                            errs[e].Head = k[1] /\ errs[e].Description = k[2]}
              IN  /\ Cardinality(at) = IF n > 1 THEN 1 ELSE 0
                  /\ \A e \in at : errs[e].Ignored = n - 1 /\ n - 1 = n - left

\* One key occurs three times: one diagnostic, counting the 2 rows removed.
C2_Witness ==
    /\ Returned
    /\ Len(charges_df) = 3
    /\ Cardinality(InputKeys) = 1
    /\ Len(totals[1].Charges) = 1
    /\ Len(totals[1].Errors) = 1
    /\ totals[1].Errors[1].Ignored = 2

\* C3: Subtotal is the sum of Amount over the deduplicated rows (the first
\* row of each key), which is less than the sum over the raw rows when a key
\* is repeated; 1000, 500, 500 with the last two sharing a key give 1500.
C3_SubtotalOverDeduplicated ==
    Returned =>
        LET raw == SumSeq([i \in 1..Len(charges_df) |-> charges_df[i].Amount])
        IN  /\ totals[1].Subtotal = SumFirstAmounts(InputKeys)
            /\ Cardinality(InputKeys) < Len(charges_df) => totals[1].Subtotal < raw
            /\ charges_df = ScenarioA => totals[1].Subtotal = 1500000

C3_Witness ==
    /\ Returned
    /\ charges_df = ScenarioA
    /\ totals[1].Subtotal = 1500000

\* C4: Grand Total = Subtotal + GST - Discount, Total Paid = Advance Paid and
\* Balance Due = Subtotal + GST - Discount - Advance Paid; Balance Due is not
\* clamped: it is negative whenever Advance Paid exceeds Grand Total.
C4_TotalsIdentity ==
    Returned =>
        LET t == totals[1]
        IN  /\ t.GrandTotal = t.Subtotal + t.GST - t.Discount
            /\ t.TotalPaid = t.AdvancePaid
            /\ t.BalanceDue = t.Subtotal + t.GST - t.Discount - t.AdvancePaid
            /\ t.Discount = Get(summary_row, "Discount", 0)
            /\ t.AdvancePaid = Get(summary_row, "Advance Paid", 0)
            /\ t.AdvancePaid > t.GrandTotal => t.BalanceDue < 0

\* The advance exceeds the grand total of a bill that has charges.
C4_Witness ==
    /\ Returned
    /\ charges_df # <<>>
    /\ totals[1].AdvancePaid > totals[1].GrandTotal
    /\ totals[1].BalanceDue < 0

----------------------------------------------------------------------------
(* Claims about pre_auth_simulation, under SpecPreAuth *)

Adjudicated == pa_result # <<>>

\* c is amount * 0.8 rounded to 2 decimals: a whole number of hundredths at
\* most half a hundredth away from 0.8 * amount.
IsEightyPercent(c, amount) ==
    /\ c % 10 = 0
    /\ 10 * c - 8 * amount <= 50
    /\ 8 * amount - 10 * c <= 50

\* C6 as stated: the status is Rejected if and only if the authorized amount
\* is 0, for every category and every amount >= 0, amount 0 included.
C6_RejectedIffZero ==
    Adjudicated => (pa_result[1].status = "Rejected" <=> pa_result[1].authorized = 0)

\* C6, amended: for every category and every amount of at least 0.01 the
\* status is Rejected if and only if the authorized amount is 0 (neither
\* happens), and for every amount a Rejected status comes with authorized 0.
C6_RejectedIffZeroFromOneCent ==
    Adjudicated =>
        /\ pa_amount >= 10 =>
             (pa_result[1].status = "Rejected" <=> pa_result[1].authorized = 0)
        /\ pa_result[1].status = "Rejected" => pa_result[1].authorized = 0

\* The smallest amount of at least 0.01 went through the 80% rule.
C6_Witness ==
    /\ Adjudicated
    /\ pa_amount = 10
    /\ pa_result[1].status = "Partial"
    /\ pa_result[1].authorized = 10

\* C9: a head under rule Approved, and every head absent from the table,
\* yields (Approved, amount); a head under rule Partial yields (Partial,
\* round(amount * 0.8, 2)), Room Rent 1000 giving (Partial, 800.00); a head
\* under rule Required yields (Approved, amount) or (Partial,
\* round(amount * 0.8, 2)) and nothing else.
C9_RuleTable ==
    Adjudicated =>
        LET r == pa_result[1]
            full == r.status = "Approved" /\ r.authorized = pa_amount
            part == r.status = "Partial" /\ IsEightyPercent(r.authorized, pa_amount)
        IN  /\ pa_head \in {"Pharmacy & Consumables", "Investigations",
                            "Miscellaneous", "Nursing"} => full
            /\ pa_head \notin DOMAIN PRE_AUTH_RULES => full
            /\ pa_head \in {"ICU", "Room Rent"} => part
            /\ pa_head \in {"OT/Cath Lab", "Surgery/Procedure", "Anesthesia",
                            "Procedure/Treatment"} => full \/ part
            /\ (pa_head = "Room Rent" /\ pa_amount = 1000000) =>
                 r = [status |-> "Partial", authorized |-> 800000]

\* A head under rule Required was approved at 80%.
C9_Witness ==
    /\ Adjudicated
    /\ pa_head = "Surgery/Procedure"
    /\ pa_amount = 1000000
    /\ pa_result[1] = [status |-> "Partial", authorized |-> 800000]

\* C10 as stated: for every category and every amount >= 0 the authorized
\* amount is between 0 and the amount, also after the rounding of the 80%.
C10_AuthorizedWithinAmount ==
    Adjudicated =>
        /\ 0 <= pa_result[1].authorized
        /\ pa_result[1].authorized <= pa_amount

----------------------------------------------------------------------------
(* Claims about process_insurance_zip, under SpecClaim and SpecZip *)

\* The file read last went through the whole iteration.
FileReported == zip_pc # "raised" /\ xls # <<>>

\* C5 as stated: the overall claim status of a patient is Pending if and
\* only if the patient has no bill lines.
C5_PendingIffNoLines ==
    FileReported => (claim_status = "Pending" <=> bills = <<>>)

\* C8 as stated, for process_insurance_zip: when the function has ended, the
\* master CSV is written and every file of the ZIP whose own processing did
\* not fail has been processed and has its row in it.
C8_FailureDoesNotAbortBatch ==
    zip_pc \in {"done", "raised"} =>
        /\ master_csv # <<>>
        /\ file_no = excel_files
        /\ Len(master_csv[1]) = excel_files - (IF zip_pc = "raised" THEN 1 ELSE 0)

----------------------------------------------------------------------------
(* Claims about BillingDataAdapter.generate_billing, under SpecAdapter *)

\* C7 as stated: for every patient of the result, when a summary row carries
\* the patient's identifier up to type and surrounding whitespace, Discount
\* and Advance Paid of the patient's totals are those of that row; they are
\* the defaults of 0 only when there is no such row.
C7_SummaryJoinedOnNormalizedId ==
    ad_pc = "done" =>
        \A uhid \in DOMAIN billing_results[1] :
            LET t == billing_results[1][uhid].Totals
                same == {i \in 1..Len(ad_summary) :
                            AsStrStripped(ad_summary[i].UHID) = AsStrStripped(uhid)}
            IN  /\ same # {} =>
                     \E i \in same : /\ t.Discount = ad_summary[i].Discount
                                     /\ t.AdvancePaid = ad_summary[i].AdvancePaid
                /\ same = {} => t.Discount = 0 /\ t.AdvancePaid = 0

----------------------------------------------------------------------------
(* Claims about the status aggregation, under SpecStatus *)

Aggregated == overall # <<>>

HasStatus(st) == \E i \in 1..Len(statuses) : statuses[i] = st

\* C11: the overall claim status is Approved if and only if every line
\* status of the patient is Approved.
C11_ApprovedIffAllApproved ==
    Aggregated =>
        (overall[1] = "Approved" <=>
            \A i \in 1..Len(statuses) : statuses[i] = "Approved")

\* Three lines, all Approved, gave Approved.
C11_Witness ==
    /\ Aggregated
    /\ Len(statuses) = 3
    /\ ~HasStatus("Partial") /\ ~HasStatus("Rejected") /\ ~HasStatus("On Hold")
    /\ overall[1] = "Approved"

\* C12: a line set with at least one Rejected line, or with no Rejected line
\* but at least one Partial line, yields Partial; the overall status is one
\* of Approved, Partial, Pending and never Rejected, whatever the statuses.
C12_RejectedOrPartialGivesPartial ==
    Aggregated =>
        /\ HasStatus("Rejected") => overall[1] = "Partial"
        /\ (~HasStatus("Rejected") /\ HasStatus("Partial")) => overall[1] = "Partial"
        /\ overall[1] \in {"Approved", "Partial", "Pending"}

\* One Rejected line among Approved lines gave Partial.
C12_Witness ==
    /\ Aggregated
    /\ Len(statuses) = 3
    /\ HasStatus("Rejected") /\ HasStatus("Approved")
    /\ ~HasStatus("Partial") /\ ~HasStatus("On Hold")
    /\ overall[1] = "Partial"

----------------------------------------------------------------------------
(* Further claims about BillingEngine.calculate_totals, under SpecEngine *)

\* C13: a call on the cleaned charges that a previous call returned, with
\* the same summary, yields the same cleaned set, an empty Errors list and
\* the same Subtotal, GST, Grand Total and Balance Due as the first call.
C13_DeduplicationIdempotent ==
    totals_again # <<>> =>
        /\ totals_again[1].Charges = totals[1].Charges
        /\ totals_again[1].Errors = <<>>
        /\ totals_again[1].Subtotal = totals[1].Subtotal
        /\ totals_again[1].GST = totals[1].GST
        /\ totals_again[1].GrandTotal = totals[1].GrandTotal
        /\ totals_again[1].BalanceDue = totals[1].BalanceDue

\* The first call removed rows and reported them; the second call was made.
C13_Witness ==
    /\ totals_again # <<>>
    /\ Len(totals[1].Charges) < Len(charges_df)
    /\ totals[1].Errors # <<>>
    /\ totals_again[1].Errors = <<>>

\* C16: GST is the post-deduplication Subtotal times GST_RATE (0.05) rounded
\* to 2 decimals, Subtotal 1500 giving 75; no other figure is rounded:
\* Subtotal is the exact sum of the kept amounts, Discount and Advance Paid
\* are the summary's values.
C16_GstRoundedAlone ==
    Returned =>
        LET t == totals[1]
        IN  /\ t.GST % 10 = 0
            /\ 100 * t.GST - GST_RATE * t.Subtotal <= 500
            /\ GST_RATE * t.Subtotal - 100 * t.GST <= 500
            /\ t.Subtotal = SumFirstAmounts(InputKeys)
            /\ t.Subtotal = 1500000 => t.GST = 75000
            /\ t.Discount = Get(summary_row, "Discount", 0)
            /\ t.AdvancePaid = Get(summary_row, "Advance Paid", 0)

\* A subtotal with a third decimal, kept as it is, whose 5% was rounded; and
\* an advance with a third decimal, kept as it is.
C16_Witness ==
    /\ Returned
    /\ totals[1].Subtotal = 1255
    /\ totals[1].GST = 60
    /\ totals[1].AdvancePaid = 2000005

----------------------------------------------------------------------------
(* Further claims about BillingDataAdapter.generate_billing, under SpecAdapter *)

ZeroTotals(t) ==
    /\ t.Subtotal = 0 /\ t.GST = 0 /\ t.GrandTotal = 0 /\ t.BalanceDue = 0
    /\ t.Charges = <<>> /\ t.Errors = <<>>

\* C14 as stated, for generate_billing: a patient of the Patient sheet who
\* has no charge rows (and no summary row) gets a result, with Subtotal, GST,
\* Grand Total and Balance Due 0, no cleaned charges and no diagnostics.
C14_NoChargesYieldsZeroBill ==
    ad_pc = "done" =>
        \A p \in 1..Len(ad_patients) :
            LET id == ad_patients[p].UHID
                SameId(df) == {i \in 1..Len(df) :
                                  AsStrStripped(df[i].UHID) = AsStrStripped(id)}
            IN  (SameId(ad_charges) = {} /\ SameId(ad_summary) = {}) =>
                    /\ id \in DOMAIN billing_results[1]
                    /\ ZeroTotals(billing_results[1][id].Totals)

----------------------------------------------------------------------------
(* Claim about the figures of process_insurance_zip, under SpecClaim *)

\* The adjudicated bill rows whose UHID is that of the file's patient.
OwnBills == Take(bills, RowsOf(bills, xls[1].partA[1].UHID), 1)

\* C17 as stated: for each patient reported, the authorized total is the sum
\* of the authorized amounts over exactly the bill rows with the patient's
\* identifier, the balance due is that total minus the Amount Paid by Patient
\* of the patient's own claim-summary row, and the status comes from the
\* patient's rows only; rows of another identifier contribute nothing.
C17_FiguresFromOwnRowsOnly ==
    FileReported =>
        LET row == master_data[Len(master_data)]
            id == xls[1].partA[1].UHID
            own_total == SumSeq([i \in 1..Len(OwnBills) |-> OwnBills[i].AuthorizedAmount])
            claim_rows == RowsOf(xls[1].partD, id)
        IN  /\ row.UHID = id
            /\ row.AuthorizedClaimed = own_total
            /\ row.ClaimStatus =
                   OverallStatus([i \in 1..Len(OwnBills) |-> OwnBills[i].PreAuthStatus])
            /\ claim_rows # {} =>
                   row.BalanceDue =
                       own_total - xls[1].partD[First(claim_rows)].AmountPaidByPatient

----------------------------------------------------------------------------
(* Claims about InsuranceDataAdapter, under SpecIns *)

LookedUp == ia_result # <<>>

Raised(r) == r.kind \notin {"None", "dict", "list"}

====
